---- MODULE Spec2Model ----
(***************************************************************************)
(* Model of the open-zengee lighting bridge scripts.                       *)
(*                                                                         *)
(*   src/openmagic.py   E1.31 (sACN) listener -> ZenggeDevice, with a      *)
(*                      rate-limited DeviceScanner and endpoint fail-over  *)
(*   src/zengeeled.py   WLED realtime UDP listener + WLED HTTP emulator    *)
(*                      -> de-duplicating ZenggeDevice                     *)
(*   src/zwdl.py        same DeviceScanner as openmagic.py                 *)
(*                                                                         *)
(* The variable impl records which script is running; every operation of   *)
(* a class that exists in both scripts is modelled once per script.        *)
(***************************************************************************)
EXTENDS Integers, Sequences, FiniteSets, TLC

VARIABLES
    impl,            \* the script that is running: "openmagic" or "zengeeled"
    \* ---- ZenggeDevice (the object bound to `device` in main)
    is_active,       \* ZenggeDevice._is_active
    last_rgb,        \* ZenggeDevice.last_rgb      (zengeeled.py only)
    update_count,    \* ZenggeDevice.update_count  (zengeeled.py only)
    \* ---- history of the calls made on the device
    last,            \* the latest ZenggeDevice method call and the driver calls it made
    pair,            \* whether the two latest calls were flush(f); flush(f) on an active device
    \* ---- the UDP listener (`listener` in main)
    dgram,           \* the datagram the producer is sending (NoPkt: none)
    rx,              \* the latest loop turn: what receive_packet got and returned,
                     \* and whether the turn went on to call flush
    \* ---- DeviceScanner (`scanner` in main) and the clock
    devices,         \* DeviceScanner.devices
    last_scan_time,  \* DeviceScanner.last_scan_time  (openmagic.py, zwdl.py)
    active_device,   \* DeviceScanner.active_device   (openmagic.py, zwdl.py)
    now,             \* time.time()
    \* ---- history of the calls made on the scanner
    scan_op,         \* the scanner method the latest step called
    disc,            \* the latest discover_devices call
    got,             \* the latest get_active_device call
    \* ---- the WLED HTTP emulator (zengeeled.py)
    body,            \* the body the HTTP client posts (NoBody: it posts nothing)
    req,             \* the latest HTTP request handled, and its answer
    \* ---- main
    pc,              \* where main is: "start", "loop" or "exited"
    device_ip,       \* _ip_address of the object bound to `device` (NoAddr: none yet)
    active_device_ip, \* main's active_device_ip
    turned_on,       \* the addresses this process has switched on and not off
    listening,       \* the sockets of this process that are bound
    target,          \* the address the latest setRgb of the loop went to
    left,            \* how main ended
    swap,            \* the latest re-evaluation of the active device in the loop
    \* ---- the scanner of openmagic.py, statement by statement
    scan_lock,       \* DeviceScanner.scan_lock: "free", or the thread that holds it
    at,              \* where each thread is inside the scanner's methods
    ips,             \* device_ips of each thread's discover_devices call
    write,           \* the latest assignment to a field of the scanner
    valid,           \* no scan has replaced self.devices since get_active_device
                     \* last tested or assigned self.active_device
    \* ---- main's loop of openmagic.py, statement by statement
    waiting,         \* main is inside listener.receive_packet(), in recvfrom
    \* ---- ZenggeDevice.flush of zengeeled.py, statement by statement
    fl_at,           \* where each thread is inside flush
    fl_rgb,          \* [r, g, b] of each thread's flush call
    shown            \* the colour the driver accepted last (NoColour: none yet)

ctlVars == <<is_active, last_rgb, update_count, last, pair>>
lsnVars == <<dgram, rx>>
scanVars == <<devices, last_scan_time, active_device, now, scan_op, disc, got>>
httpVars == <<body, req>>
mainVars == <<pc, device_ip, active_device_ip, turned_on, listening, target, left, swap>>
raceVars == <<scan_lock, at, ips, write, valid>>
loopVars == <<waiting>>
flushVars == <<fl_at, fl_rgb, shown>>
vars == <<impl, ctlVars, lsnVars, scanVars, httpVars, mainVars, raceVars,
          loopVars, flushVars>>

\* ------------------------------------------------------------------ bounds

\* colour components range over 0..MaxByte (a byte is 0..255 in the code; the
\* code never inspects a component's value, only compares triples)
MaxByte == 1
\* the longest rgb_data list handed to flush
MaxRgbLen == 3
\* flush is modelled while update_count < MaxUpdates (a Python int, unbounded)
MaxUpdates == 2
\* an sACN datagram carries 0..MaxTail bytes from offset 126 on
MaxTail == 4
\* a WLED realtime datagram is 0..MaxWledLen bytes long
MaxWledLen == 8
\* the leading (protocol) byte of a WLED realtime datagram is 0..MaxTag
MaxTag == 4
\* the low byte of an sACN datagram's universe field is 0..MaxUniverse
MaxUniverse == 2
\* the bulbs on the network have the addresses 1..MaxAddr
MaxAddr == 2
\* time.time() when the process starts, in seconds
StartTime == 100
\* the clock advances in steps of TickStep seconds ...
TickStep == 5
\* ... until Horizon seconds after the start
Horizon == 30
\* a request path ends in 0..MaxSlashes slashes
MaxSlashes == 1
\* main is followed for MaxUptime seconds
MaxUptime == 140

Byte == 0..MaxByte
Impls == {"openmagic", "zengeeled"}

\* rgb_data as a caller hands it to flush: a list of 2..MaxRgbLen components
\* (zengeeled's listener and HTTP handler pass 3; openmagic's listener passes
\* every byte after offset 126, which SpecIngest covers up to MaxTail)
RgbLists == UNION {[1..n -> Byte] : n \in 2..MaxRgbLen}

\* ------------------------------------------------------------------ driver

\* one call on the flux_led bulb object: the method, its arguments, and
\* whether it returned (ok) or raised
Call(fn, args, ok) == [fn |-> fn, args |-> args, ok |-> ok]

\* what a ZenggeDevice method leaves behind: the object's fields, the driver
\* calls it made in order, and whether an exception left the method
Out(active, lrgb, cnt, calls) ==
    [is_active |-> active, last_rgb |-> lrgb, update_count |-> cnt,
     calls |-> calls, raised |-> FALSE]

\* ------------------------------------------------------------ ZenggeDevice

\* openmagic.py ZenggeDevice.activate: turnOn, then mark active; any
\* exception marks inactive
openmagic_activate(active, lrgb, cnt, on_ok) ==
    IF on_ok
    THEN Out(TRUE, lrgb, cnt, <<Call("turnOn", <<>>, TRUE)>>)
    ELSE Out(FALSE, lrgb, cnt, <<Call("turnOn", <<>>, FALSE)>>)

\* zengeeled.py ZenggeDevice.activate: turnOn, sleep, mark active, getRgb for
\* the log line; an exception from either driver call marks inactive
zengeeled_activate(active, lrgb, cnt, on_ok, get_ok) ==
    IF ~on_ok
    THEN Out(FALSE, lrgb, cnt, <<Call("turnOn", <<>>, FALSE)>>)
    ELSE IF ~get_ok
    THEN Out(FALSE, lrgb, cnt,
             <<Call("turnOn", <<>>, TRUE), Call("getRgb", <<>>, FALSE)>>)
    ELSE Out(TRUE, lrgb, cnt,
             <<Call("turnOn", <<>>, TRUE), Call("getRgb", <<>>, TRUE)>>)

\* ZenggeDevice.deactivate (the same code in both scripts): turnOff, then
\* clear the flag; an exception from turnOff skips the assignment
deactivate(active, lrgb, cnt, off_ok) ==
    IF off_ok
    THEN Out(FALSE, lrgb, cnt, <<Call("turnOff", <<>>, TRUE)>>)
    ELSE Out(active, lrgb, cnt, <<Call("turnOff", <<>>, FALSE)>>)

\* openmagic.py ZenggeDevice.flush: no de-duplication, red and green swapped
openmagic_flush(active, lrgb, cnt, rgb_data, set_ok) ==
    IF ~active THEN Out(active, lrgb, cnt, <<>>)
    ELSE IF Len(rgb_data) < 3 THEN Out(active, lrgb, cnt, <<>>)
    ELSE Out(active, lrgb, cnt,
             <<Call("setRgb", <<rgb_data[2], rgb_data[1], rgb_data[3]>>, set_ok)>>)

\* zengeeled's flush without its `if not self._is_active: return`
zengeeled_flush_without_active_check(active, lrgb, cnt, rgb_data, set_ok) ==
    IF Len(rgb_data) < 3 THEN Out(active, lrgb, cnt, <<>>)
    ELSE LET rgb == <<rgb_data[1], rgb_data[2], rgb_data[3]>> IN
         IF lrgb = rgb THEN Out(active, lrgb, cnt, <<>>)
         ELSE IF set_ok
         THEN Out(active, rgb, cnt + 1, <<Call("setRgb", rgb, TRUE)>>)
         ELSE Out(active, lrgb, cnt + 1, <<Call("setRgb", rgb, FALSE)>>)

\* zengeeled's flush recording last_rgb before the driver call
zengeeled_flush_recording_before_call(active, lrgb, cnt, rgb_data, set_ok) ==
    IF ~active THEN Out(active, lrgb, cnt, <<>>)
    ELSE IF Len(rgb_data) < 3 THEN Out(active, lrgb, cnt, <<>>)
    ELSE LET rgb == <<rgb_data[1], rgb_data[2], rgb_data[3]>> IN
         IF lrgb = rgb THEN Out(active, lrgb, cnt, <<>>)
         ELSE Out(active, rgb, cnt + 1, <<Call("setRgb", rgb, set_ok)>>)

\* zengeeled.py ZenggeDevice.flush: drop a repeat of last_rgb; count the
\* update before the driver call; record last_rgb only after setRgb returned
zengeeled_flush(active, lrgb, cnt, rgb_data, set_ok) ==
    IF ~active THEN Out(active, lrgb, cnt, <<>>)
    ELSE IF Len(rgb_data) < 3 THEN Out(active, lrgb, cnt, <<>>)
    ELSE LET rgb == <<rgb_data[1], rgb_data[2], rgb_data[3]>> IN
         IF lrgb = rgb THEN Out(active, lrgb, cnt, <<>>)
         ELSE IF set_ok
         THEN Out(active, rgb, cnt + 1, <<Call("setRgb", rgb, TRUE)>>)
         ELSE Out(active, lrgb, cnt + 1, <<Call("setRgb", rgb, FALSE)>>)

\* ----------------------------------------------------------------- history

NoCall == [op |-> "init", rgb |-> <<>>, pre_active |-> FALSE,
           calls |-> <<>>, raised |-> FALSE]

\* the record of one method call: its name, its rgb_data argument (<<>> when
\* it has none), _is_active when it was entered, and what it did
Rec(op, rgb, out) ==
    [op |-> op, rgb |-> rgb, pre_active |-> is_active,
     calls |-> out.calls, raised |-> out.raised]

\* flush(rgb) is entered right after flush(rgb), the device active both times
Repeats(rgb) ==
    /\ last.op = "flush"
    /\ last.rgb = rgb
    /\ last.pre_active
    /\ is_active

Apply(op, rgb, out) ==
    /\ is_active' = out.is_active
    /\ last_rgb' = out.last_rgb
    /\ update_count' = out.update_count
    /\ last' = Rec(op, rgb, out)
    /\ pair' = IF op = "flush" /\ Repeats(rgb)
               THEN [twice |-> TRUE, calls |-> Len(last.calls) + Len(out.calls)]
               ELSE [twice |-> FALSE, calls |-> 0]

\* ----------------------------------------------------------------- actions

InitDevice ==
    /\ is_active = FALSE
    /\ last_rgb = <<0, 0, 0>>
    /\ update_count = 0
    /\ last = NoCall
    /\ pair = [twice |-> FALSE, calls |-> 0]

ActivateOpenmagic ==
    /\ impl = "openmagic"
    /\ \E on_ok \in BOOLEAN :
         Apply("activate", <<>>,
               openmagic_activate(is_active, last_rgb, update_count, on_ok))
    /\ UNCHANGED <<impl, lsnVars, scanVars, httpVars, mainVars, raceVars, loopVars, flushVars>>

ActivateZengeeled ==
    /\ impl = "zengeeled"
    /\ \E on_ok \in BOOLEAN, get_ok \in BOOLEAN :
         Apply("activate", <<>>,
               zengeeled_activate(is_active, last_rgb, update_count, on_ok, get_ok))
    /\ UNCHANGED <<impl, lsnVars, scanVars, httpVars, mainVars, raceVars, loopVars, flushVars>>

Deactivate ==
    /\ \E off_ok \in BOOLEAN :
         Apply("deactivate", <<>>,
               deactivate(is_active, last_rgb, update_count, off_ok))
    /\ UNCHANGED <<impl, lsnVars, scanVars, httpVars, mainVars, raceVars, loopVars, flushVars>>

FlushOpenmagic ==
    /\ impl = "openmagic"
    /\ \E rgb_data \in RgbLists, set_ok \in BOOLEAN :
         Apply("flush", rgb_data,
               openmagic_flush(is_active, last_rgb, update_count, rgb_data, set_ok))
    /\ UNCHANGED <<impl, lsnVars, scanVars, httpVars, mainVars, raceVars, loopVars, flushVars>>

FlushZengeeled ==
    /\ impl = "zengeeled"
    /\ update_count < MaxUpdates
    /\ \E rgb_data \in RgbLists, set_ok \in BOOLEAN :
         Apply("flush", rgb_data,
               zengeeled_flush(is_active, last_rgb, update_count, rgb_data, set_ok))
    /\ UNCHANGED <<impl, lsnVars, scanVars, httpVars, mainVars, raceVars, loopVars, flushVars>>

\* ---------------------------------------------------------------- datagrams

\* A datagram is described by its length and the few bytes the decoders look
\* at; every other byte at 0-based offset k is (base + step * k) % 256, so
\* step = 0 gives a constant fill and step = 1 gives bytes that differ from
\* offset to offset.
Fill(pkt, k) == (pkt.base + pkt.step * k) % 256

\* the bytes of a datagram, as the 1-based sequence data[k+1] = byte at offset k
Payload(pkt) ==
    IF pkt.kind = "sacn"
    THEN [i \in 1..pkt.len |->
            IF i = 114 THEN pkt.uni \div 256
            ELSE IF i = 115 THEN pkt.uni % 256
            ELSE Fill(pkt, i - 1)]
    ELSE [i \in 1..pkt.len |-> IF i = 1 THEN pkt.tag ELSE Fill(pkt, i - 1)]

NoPkt == [kind |-> "none", len |-> 0, tag |-> 0, uni |-> 0, base |-> 0, step |-> 0]

\* sACN datagrams: too short for the universe field, too short for the length
\* gate, and 126 + 0..MaxTail bytes; the universe field holds u or 256 + u
SacnLens == {0, 1, 113, 114, 115, 125} \cup {126 + t : t \in 0..MaxTail}
SacnPackets ==
    [kind : {"sacn"}, len : SacnLens, tag : {0},
     uni : {u + 256 * h : u \in 0..MaxUniverse, h \in 0..1},
     base : Byte, step : 0..1]

\* WLED realtime datagrams: every length 0..MaxWledLen under every tag
WledPackets ==
    [kind : {"wled"}, len : 0..MaxWledLen, tag : 0..MaxTag, uni : {0},
     base : Byte, step : 0..1]

\* ------------------------------------------------------------------ Python

Min(a, b) == IF a < b THEN a ELSE b

\* data[a:b] of Python: 0-based, half-open, clamped to the sequence
PySlice(data, a, b) == SubSeq(data, a + 1, Min(b, Len(data)))

\* what receive_packet returns: None, or a list v; exc tells that the None
\* comes from the except clause (an exception was raised inside and caught)
None == [isNone |-> TRUE, v |-> <<>>, exc |-> FALSE]
Caught == [isNone |-> TRUE, v |-> <<>>, exc |-> TRUE]
List(v) == [isNone |-> FALSE, v |-> v, exc |-> FALSE]

\* `if rgb_data:` -- None and the empty list are false
Truthy(r) == ~r.isNone /\ Len(r.v) > 0

\* ---------------------------------------------------------------- listeners

\* the universe main passes to E131Listener
E131_UNIVERSE == 1

\* openmagic's receive_packet comparing only the low byte of the universe
\* field
openmagic_receive_packet_low_universe_byte(recv_ok, data, universe) ==
    IF ~recv_ok THEN Caught
    ELSE IF Len(data) < 126 THEN None
    ELSE LET field == PySlice(data, 113, 115) IN
         IF Len(field) # 2 THEN Caught
         ELSE IF field[2] # universe % 256 THEN None
         ELSE List(PySlice(data, 126, Len(data)))

\* openmagic.py E131Listener.receive_packet on the datagram recvfrom returned
\* (recv_ok = FALSE: recvfrom raised)
openmagic_receive_packet(recv_ok, data, universe) ==
    IF ~recv_ok THEN Caught
    ELSE IF Len(data) < 126 THEN None
    ELSE LET field == PySlice(data, 113, 115) IN
         IF Len(field) # 2 THEN Caught              \* struct.error from unpack
         ELSE IF field[1] * 256 + field[2] # universe THEN None
         ELSE List(PySlice(data, 126, Len(data)))

\* zengeeled's receive_packet without the length check of the DNRGB branch
zengeeled_receive_packet_without_dnrgb_gate(recv_ok, data) ==
    IF ~recv_ok THEN Caught
    ELSE IF Len(data) < 2 THEN None
    ELSE LET protocol == data[1]
             rgb_data ==
                 IF protocol = 2
                 THEN IF Len(data) >= 5 THEN List(PySlice(data, 2, 5)) ELSE None
                 ELSE IF protocol = 1
                 THEN IF Len(data) >= 6 THEN List(PySlice(data, 3, 6)) ELSE None
                 ELSE IF protocol = 4
                 THEN List(PySlice(data, 4, 7))
                 ELSE None
         IN IF Truthy(rgb_data) THEN rgb_data ELSE None

\* zengeeled's receive_packet reading DNRGB's colour one byte early, at the
\* low byte of the start index
zengeeled_receive_packet_dnrgb_at_3(recv_ok, data) ==
    IF ~recv_ok THEN Caught
    ELSE IF Len(data) < 2 THEN None
    ELSE LET protocol == data[1]
             rgb_data ==
                 IF protocol = 2
                 THEN IF Len(data) >= 5 THEN List(PySlice(data, 2, 5)) ELSE None
                 ELSE IF protocol = 1
                 THEN IF Len(data) >= 6 THEN List(PySlice(data, 3, 6)) ELSE None
                 ELSE IF protocol = 4
                 THEN IF Len(data) >= 7 THEN List(PySlice(data, 3, 6)) ELSE None
                 ELSE None
         IN IF Truthy(rgb_data) THEN rgb_data ELSE None

\* zengeeled.py WLEDUDPListener.receive_packet (packet_count, which only
\* paces a log line, is left out)
zengeeled_receive_packet(recv_ok, data) ==
    IF ~recv_ok THEN Caught
    ELSE IF Len(data) < 2 THEN None
    ELSE LET protocol == data[1]
             rgb_data ==
                 IF protocol = 2
                 THEN IF Len(data) >= 5 THEN List(PySlice(data, 2, 5)) ELSE None
                 ELSE IF protocol = 1
                 THEN IF Len(data) >= 6 THEN List(PySlice(data, 3, 6)) ELSE None
                 ELSE IF protocol = 4
                 THEN IF Len(data) >= 7 THEN List(PySlice(data, 4, 7)) ELSE None
                 ELSE None
         IN IF Truthy(rgb_data) THEN rgb_data ELSE None

InitListener ==
    /\ dgram = NoPkt
    /\ rx = [got |-> FALSE, recv_ok |-> FALSE, ret |-> None, flushed |-> FALSE]

\* main's loop body calls flush only `if rgb_data:`
Forward(rgb_data, out) ==
    IF Truthy(rgb_data)
    THEN Apply("flush", rgb_data.v, out)
    ELSE Apply("none", <<>>, Out(is_active, last_rgb, update_count, <<>>))

\* openmagic.py main, one turn of the loop: receive_packet, then flush
IngestOpenmagic ==
    /\ impl = "openmagic"
    /\ dgram.kind = "sacn"
    /\ \E recv_ok \in BOOLEAN, set_ok \in BOOLEAN :
         LET rgb_data == openmagic_receive_packet(recv_ok, Payload(dgram), E131_UNIVERSE) IN
         /\ rx' = [got |-> TRUE, recv_ok |-> recv_ok, ret |-> rgb_data,
                 flushed |-> Truthy(rgb_data)]
         /\ Forward(rgb_data,
                    openmagic_flush(is_active, last_rgb, update_count, rgb_data.v, set_ok))
    /\ UNCHANGED <<impl, dgram, scanVars, httpVars, mainVars, raceVars, loopVars, flushVars>>

\* zengeeled.py main, one turn of the loop: receive_packet, then flush
IngestZengeeled ==
    /\ impl = "zengeeled"
    /\ dgram.kind = "wled"
    /\ update_count < MaxUpdates
    /\ \E recv_ok \in BOOLEAN, set_ok \in BOOLEAN :
         LET rgb_data == zengeeled_receive_packet(recv_ok, Payload(dgram)) IN
         /\ rx' = [got |-> TRUE, recv_ok |-> recv_ok, ret |-> rgb_data,
                 flushed |-> Truthy(rgb_data)]
         /\ Forward(rgb_data,
                    zengeeled_flush(is_active, last_rgb, update_count, rgb_data.v, set_ok))
    /\ UNCHANGED <<impl, dgram, scanVars, httpVars, mainVars, raceVars, loopVars, flushVars>>

\* ------------------------------------------------------------ DeviceScanner

Addrs == 1..MaxAddr
\* active_device = None
NoAddr == 0

Range(f) == {f[i] : i \in DOMAIN f}

\* a scan finds the bulbs that answer, each once, in the order they answer
DeviceLists ==
    {l \in UNION {[1..n -> Addrs] : n \in 0..MaxAddr} :
        \A i, j \in DOMAIN l : i # j => l[i] # l[j]}

\* flux_led.BulbScanner().scan(): it raises, or it returns the bulbs found
Probes ==
    {[ok |-> FALSE, found |-> <<>>]} \cup [ok : {TRUE}, found : DeviceLists]

\* `time.time() - self.last_scan_time < 10`
RATE_LIMIT == 10
\* DeviceScanner(scan_timeout=5): a scan listens for scan_timeout seconds
scan_timeout == 5

\* what discover_devices leaves behind: the scanner's fields, the value
\* returned, whether it probed the network ("none": no probe, "ok", "fail"),
\* whether an exception left the method, and the time at its return
Found(devs, lst, ret, probed, t) ==
    [devices |-> devs, last_scan_time |-> lst, ret |-> ret,
     probed |-> probed, raised |-> FALSE, t |-> t]

\* discover_devices handing back the cached list when the scan raises
openmagic_discover_devices_returning_cache(devs, lst, t, probe) ==
    IF t - lst < RATE_LIMIT THEN Found(devs, lst, devs, "none", t)
    ELSE IF probe.ok
    THEN Found(probe.found, t + scan_timeout, probe.found, "ok", t + scan_timeout)
    ELSE Found(devs, lst, devs, "fail", t)

\* discover_devices forgetting the devices it knew when the scan raises
openmagic_discover_devices_clearing_on_failure(devs, lst, t, probe) ==
    IF t - lst < RATE_LIMIT THEN Found(devs, lst, devs, "none", t)
    ELSE IF probe.ok
    THEN Found(probe.found, t + scan_timeout, probe.found, "ok", t + scan_timeout)
    ELSE Found(<<>>, lst, <<>>, "fail", t)

\* openmagic.py / zwdl.py DeviceScanner.discover_devices, entered at time t,
\* the whole body under scan_lock
openmagic_discover_devices(devs, lst, t, probe) ==
    IF t - lst < RATE_LIMIT THEN Found(devs, lst, devs, "none", t)
    ELSE IF probe.ok
    THEN Found(probe.found, t + scan_timeout, probe.found, "ok", t + scan_timeout)
    ELSE Found(devs, lst, <<>>, "fail", t)

\* zengeeled.py DeviceScanner.discover_devices: no lock, no rate limit
zengeeled_discover_devices(devs, lst, t, probe) ==
    IF probe.ok
    THEN Found(probe.found, lst, probe.found, "ok", t + scan_timeout)
    ELSE Found(devs, lst, <<>>, "fail", t)

\* what get_active_device leaves behind
Active(d, act, ret) ==
    [devices |-> d.devices, last_scan_time |-> d.last_scan_time,
     active_device |-> act, ret |-> ret, raised |-> FALSE, t |-> d.t, disc |-> d]

\* get_active_device keeping an active address that dropped out of devices
get_active_device_keeping_stale(devs, lst, act, t, probe) ==
    LET d == IF devs = <<>>
             THEN openmagic_discover_devices(devs, lst, t, probe)
             ELSE Found(devs, lst, <<>>, "skipped", t)
    IN IF d.devices # <<>>
       THEN IF act = NoAddr
            THEN Active(d, d.devices[1], d.devices[1])
            ELSE Active(d, act, act)
       ELSE Active(d, act, NoAddr)

\* openmagic.py / zwdl.py DeviceScanner.get_active_device, entered at time t
get_active_device(devs, lst, act, t, probe) ==
    LET d == IF devs = <<>>
             THEN openmagic_discover_devices(devs, lst, t, probe)
             ELSE Found(devs, lst, <<>>, "skipped", t)
    IN IF d.devices # <<>>
       THEN IF act = NoAddr \/ act \notin Range(d.devices)
            THEN Active(d, d.devices[1], d.devices[1])
            ELSE Active(d, act, act)
       ELSE Active(d, act, NoAddr)

NoDisc == [called |-> FALSE, probed |-> "none", ret |-> <<>>, raised |-> FALSE,
           start |-> 0, done |-> 0]
NoGot == [called |-> FALSE, pre_devices |-> <<>>, pre_active |-> NoAddr,
          ret |-> NoAddr, raised |-> FALSE]

\* the record of one discover_devices call entered at time `now`
DiscRec(d) ==
    [called |-> TRUE, probed |-> d.probed, ret |-> d.ret, raised |-> d.raised,
     start |-> now, done |-> d.t]

InitScanner ==
    /\ devices = <<>>
    /\ last_scan_time = 0
    /\ active_device = NoAddr
    /\ now = StartTime
    /\ scan_op = "init"
    /\ disc = NoDisc
    /\ got = NoGot

\* time passes between two calls
Tick ==
    /\ now + TickStep <= StartTime + Horizon
    /\ now' = now + TickStep
    /\ scan_op' = "tick"
    /\ UNCHANGED <<impl, ctlVars, lsnVars, httpVars, mainVars, devices, last_scan_time,
                   active_device, disc, got,
                   raceVars, loopVars, flushVars>>

\* discover_devices called by main or by the background scanner thread
DiscoverOpenmagic ==
    /\ impl = "openmagic"
    /\ now + scan_timeout <= StartTime + Horizon
    /\ \E probe \in Probes :
         LET d == openmagic_discover_devices(devices, last_scan_time, now, probe) IN
         /\ devices' = d.devices
         /\ last_scan_time' = d.last_scan_time
         /\ now' = d.t
         /\ disc' = DiscRec(d)
    /\ scan_op' = "discover_devices"
    /\ UNCHANGED <<impl, ctlVars, lsnVars, httpVars, mainVars, active_device, got,
                   raceVars, loopVars, flushVars>>

\* discover_devices called by zengeeled.py's main
DiscoverZengeeled ==
    /\ impl = "zengeeled"
    /\ now + scan_timeout <= StartTime + Horizon
    /\ \E probe \in Probes :
         LET d == zengeeled_discover_devices(devices, last_scan_time, now, probe) IN
         /\ devices' = d.devices
         /\ last_scan_time' = d.last_scan_time
         /\ now' = d.t
         /\ disc' = DiscRec(d)
    /\ scan_op' = "discover_devices"
    /\ UNCHANGED <<impl, ctlVars, lsnVars, httpVars, mainVars, active_device, got,
                   raceVars, loopVars, flushVars>>

\* get_active_device called by main
GetActive ==
    /\ impl = "openmagic"
    /\ now + scan_timeout <= StartTime + Horizon
    /\ \E probe \in Probes :
         LET a == get_active_device(devices, last_scan_time, active_device, now, probe) IN
         /\ devices' = a.devices
         /\ last_scan_time' = a.last_scan_time
         /\ active_device' = a.active_device
         /\ now' = a.t
         /\ disc' = IF a.disc.probed = "skipped" THEN disc ELSE DiscRec(a.disc)
         /\ got' = [called |-> TRUE, pre_devices |-> devices,
                    pre_active |-> active_device, ret |-> a.ret, raised |-> a.raised]
    /\ scan_op' = "get_active_device"
    /\ UNCHANGED <<impl, ctlVars, lsnVars, httpVars, mainVars, raceVars, loopVars, flushVars>>

\* ----------------------------------------------------- WLED HTTP emulator

\* a request path is a stem that does not end in "/", followed by 0..MaxSlashes
\* slashes: "/json/" is the stem "/json" and one slash, "/" the empty stem
\* and one slash
Stems == {"", "/json", "/json/info", "/json/state"}
Paths ==
    {p \in [stem : Stems, slashes : 0..MaxSlashes] : p.stem = "" => p.slashes > 0}

\* self.path.rstrip('/')
rstrip(path) == path.stem

\* the values json.loads builds: None, numbers, strings (a tuple of
\* characters), lists, and dicts (a function from key names to values)
JNull == [t |-> "null"]
JNum(n) == [t |-> "num", n |-> n]
JStr(chars) == [t |-> "str", s |-> chars]
JList(items) == [t |-> "list", items |-> items]
JDict(d) == [t |-> "dict", d |-> d]

\* the two keys do_POST looks up
SEG == [name |-> "seg", chars |-> <<"s", "e", "g">>]
COL == [name |-> "col", chars |-> <<"c", "o", "l">>]

\* `key in v` raises TypeError on None and on a number
InRaises(v) == v.t \in {"null", "num"}
\* `key in v`: a key of a dict, an element of a list, a substring of a string
In(key, v) ==
    CASE v.t = "dict" -> key.name \in DOMAIN v.d
      [] v.t = "list" ->
           \E i \in DOMAIN v.items :
              v.items[i].t = "str" /\ v.items[i].s = key.chars
      [] v.t = "str" ->
           \E i \in 0..(Len(v.s) - Len(key.chars)) :
              SubSeq(v.s, i + 1, i + Len(key.chars)) = key.chars
      [] OTHER -> FALSE
\* v[key] with a string key: KeyError or TypeError unless v is a dict with it
ItemRaises(v, key) == ~(v.t = "dict" /\ key.name \in DOMAIN v.d)
Item(v, key) == v.d[key.name]
\* v[0]: IndexError on an empty list or string, KeyError on a dict (its keys
\* are strings), TypeError on None and on a number
FirstRaises(v) ==
    ~(\/ v.t = "list" /\ Len(v.items) > 0
      \/ v.t = "str" /\ Len(v.s) > 0)
First(v) == IF v.t = "list" THEN v.items[1] ELSE JStr(<<v.s[1]>>)
\* `if v:`
JTruthy(v) ==
    CASE v.t = "null" -> FALSE
      [] v.t = "num" -> v.n # 0
      [] v.t = "str" -> Len(v.s) > 0
      [] v.t = "list" -> Len(v.items) > 0
      [] v.t = "dict" -> DOMAIN v.d # {}
\* len(v) raises TypeError on None and on a number
LenRaises(v) == v.t \in {"null", "num"}
PyLen(v) ==
    CASE v.t = "str" -> Len(v.s)
      [] v.t = "list" -> Len(v.items)
      [] v.t = "dict" -> Cardinality(DOMAIN v.d)

\* a JSON list of numbers, and the components of one
Colour(f) == JList([i \in DOMAIN f |-> JNum(f[i])])
Numbers(v) == [i \in DOMAIN v.items |-> v.items[i].n]

Frames == [1..3 -> Byte]
Black == <<0, 0, 0>>
\* the colours a client posts: black, and every frame with one component lit
PostFrames == {f \in Frames : \E i \in 1..3 : \A j \in 1..3 : j # i => f[j] = 0}

\* the request bodies a client posts; the kinds with colour components carry
\* them in f
ColourKinds == {"col0_len2", "col0_len3", "col0_len3_full", "col0_len4"}
OtherKinds ==
    {"not_json", "null", "number", "string", "list", "empty_object", "on_only",
     "seg_empty", "seg_number", "seg_string", "seg0_number", "seg0_no_col",
     "col_null", "col_empty", "col_number", "col_string", "col0_number",
     "col0_null"}
NoBody == [kind |-> "none", f |-> Black]
PostBodies == [kind : ColourKinds, f : PostFrames] \cup [kind : OtherKinds, f : {Black}]

\* json.loads(post_data.decode('utf-8')): json = FALSE when it raises
Text(v) == [json |-> TRUE, v |-> v]
Parsed(b) ==
    CASE b.kind = "not_json" -> [json |-> FALSE, v |-> JNull]      \* seg=1
      [] b.kind = "null" -> Text(JNull)                           \* null
      [] b.kind = "number" -> Text(JNum(7))                       \* 7
      [] b.kind = "string" -> Text(JStr(<<"a", "s", "e", "g">>))  \* "aseg"
      [] b.kind = "list" -> Text(JList(<<JStr(SEG.chars)>>))      \* ["seg"]
      [] b.kind = "empty_object" -> Text(JDict(<<>>))             \* {}
      [] b.kind = "on_only" -> Text(JDict([on |-> JNum(1)]))      \* {"on":1}
      [] b.kind = "seg_empty" -> Text(JDict([seg |-> JList(<<>>)]))   \* {"seg":[]}
      [] b.kind = "seg_number" -> Text(JDict([seg |-> JNum(7)]))      \* {"seg":7}
      [] b.kind = "seg_string" ->                                 \* {"seg":"x"}
           Text(JDict([seg |-> JStr(<<"x">>)]))
      [] b.kind = "seg0_number" ->                                \* {"seg":[7]}
           Text(JDict([seg |-> JList(<<JNum(7)>>)]))
      [] b.kind = "seg0_no_col" ->                                \* {"seg":[{"fx":0}]}
           Text(JDict([seg |-> JList(<<JDict([fx |-> JNum(0)])>>)]))
      [] b.kind = "col_null" ->                                   \* {"seg":[{"col":null}]}
           Text(JDict([seg |-> JList(<<JDict([col |-> JNull])>>)]))
      [] b.kind = "col_empty" ->                                  \* {"seg":[{"col":[]}]}
           Text(JDict([seg |-> JList(<<JDict([col |-> JList(<<>>)])>>)]))
      [] b.kind = "col_number" ->                                 \* {"seg":[{"col":7}]}
           Text(JDict([seg |-> JList(<<JDict([col |-> JNum(7)])>>)]))
      [] b.kind = "col_string" ->                                 \* {"seg":[{"col":"red"}]}
           Text(JDict([seg |-> JList(<<JDict([col |-> JStr(<<"r", "e", "d">>)])>>)]))
      [] b.kind = "col0_number" ->                                \* {"seg":[{"col":[7]}]}
           Text(JDict([seg |-> JList(<<JDict([col |-> JList(<<JNum(7)>>)])>>)]))
      [] b.kind = "col0_null" ->                                  \* {"seg":[{"col":[null]}]}
           Text(JDict([seg |-> JList(<<JDict([col |-> JList(<<JNull>>)])>>)]))
      [] b.kind = "col0_len2" ->                                  \* {"seg":[{"col":[[r,g]]}]}
           Text(JDict([seg |-> JList(<<JDict(
               [col |-> JList(<<Colour(<<b.f[1], b.f[2]>>)>>)])>>)]))
      [] b.kind = "col0_len3" ->                                  \* {"seg":[{"col":[[r,g,b]]}]}
           Text(JDict([seg |-> JList(<<JDict(
               [col |-> JList(<<Colour(b.f)>>)])>>)]))
      [] b.kind = "col0_len3_full" ->
           \* {"on":1,"seg":[{"id":0,"col":[[r,g,b],[0,0,0],[0,0,0]]}]}
           Text(JDict([on |-> JNum(1), seg |-> JList(<<JDict(
               [id |-> JNum(0),
                col |-> JList(<<Colour(b.f), Colour(Black), Colour(Black)>>)])>>)]))
      [] b.kind = "col0_len4" ->                                  \* {"seg":[{"col":[[r,g,b,0]]}]}
           Text(JDict([seg |-> JList(<<JDict(
               [col |-> JList(<<Colour(b.f \o <<0>>)>>)])>>)]))

\* _get_state_dict reporting last_rgb in the second colour slot
_get_state_dict_second_slot(active, lrgb) ==
    [on |-> active, col |-> <<Black, lrgb, Black>>]

\* zengeeled.py WLEDEmulator._get_state_dict: the fields that come from the
\* device (the others are literals)
_get_state_dict(active, lrgb) ==
    [on |-> active, col |-> <<lrgb, Black, Black>>]

\* what a handler leaves behind: the status line it sent (0: none, the
\* handler raised), the state object in the body of a GET answer, whether
\* the body is {"success":true}, whether flush was called and with what
Answer(status, state, success) ==
    [status |-> status, state |-> state, success |-> success,
     forwarded |-> FALSE, arg |-> <<>>, raised |-> status = 0]
NoState == [on |-> FALSE, col |-> <<>>]

\* do_GET comparing self.path as it came, without rstrip('/')
do_GET_without_rstrip(path, active, lrgb) ==
    IF path = [stem |-> "/json/info", slashes |-> 0]
    THEN Answer(200, NoState, FALSE)
    ELSE IF path = [stem |-> "/json", slashes |-> 0]
    THEN Answer(200, _get_state_dict(active, lrgb), FALSE)
    ELSE Answer(404, NoState, FALSE)

\* zengeeled.py WLEDEmulator.do_GET
do_GET(path, active, lrgb) ==
    LET p == rstrip(path) IN
    IF p = "/json/info" THEN Answer(200, NoState, FALSE)
    ELSE IF p = "/json" THEN Answer(200, _get_state_dict(active, lrgb), FALSE)
    ELSE Answer(404, NoState, FALSE)

\* the try block of do_POST up to the flush call: "raise" when an exception
\* reaches the except clause, "skip" when the conditions are false, "flush"
\* when flush(colors[0]) is called
PostBranch(b) ==
    LET text == Parsed(b)
        state == text.v
    IN
    IF ~text.json THEN "raise"
    ELSE IF InRaises(state) THEN "raise"
    ELSE IF ~In(SEG, state) THEN "skip"
    ELSE IF ItemRaises(state, SEG) THEN "raise"
    ELSE IF ~JTruthy(Item(state, SEG)) THEN "skip"
    ELSE IF FirstRaises(Item(state, SEG)) THEN "raise"
    ELSE LET seg0 == First(Item(state, SEG)) IN
         IF InRaises(seg0) THEN "raise"
         ELSE IF ~In(COL, seg0) THEN "skip"
         ELSE IF ItemRaises(seg0, COL) THEN "raise"
         ELSE LET colors == Item(seg0, COL) IN
              IF ~JTruthy(colors) THEN "skip"
              ELSE IF FirstRaises(colors) THEN "raise"
              ELSE IF LenRaises(First(colors)) THEN "raise"
              ELSE IF PyLen(First(colors)) = 3 THEN "flush"
              ELSE "skip"

\* colors[0] of a body for which PostBranch is "flush"
PostColour(b) == Numbers(First(Item(First(Item(Parsed(b).v, SEG)), COL)))

\* do_POST handing flush the components of colors[0] in reverse order
do_POST_reversing_colour(path, has_length, b, active, lrgb, cnt, set_ok) ==
    IF rstrip(path) # "/json/state" THEN Answer(404, NoState, FALSE)
    ELSE IF ~has_length THEN Answer(0, NoState, FALSE)
    ELSE IF PostBranch(b) = "raise" THEN Answer(500, NoState, FALSE)
    ELSE IF PostBranch(b) = "skip" THEN Answer(200, NoState, TRUE)
    ELSE [Answer(200, NoState, TRUE) EXCEPT
            !.forwarded = TRUE,
            !.arg = <<PostColour(b)[3], PostColour(b)[2], PostColour(b)[1]>>]

\* zengeeled.py WLEDEmulator.do_POST; has_length = FALSE: the request has no
\* Content-Length header, and int(None) raises outside the try block
do_POST(path, has_length, b, active, lrgb, cnt, set_ok) ==
    IF rstrip(path) # "/json/state" THEN Answer(404, NoState, FALSE)
    ELSE IF ~has_length THEN Answer(0, NoState, FALSE)
    ELSE IF PostBranch(b) = "raise" THEN Answer(500, NoState, FALSE)
    ELSE IF PostBranch(b) = "skip" THEN Answer(200, NoState, TRUE)
    ELSE [Answer(200, NoState, TRUE) EXCEPT
            !.forwarded = TRUE, !.arg = PostColour(b)]

\* the record of one request: what was asked, what the handler answered,
\* _is_active when it ran, the driver calls its flush made, and update_count
\* when it returned
NoReq ==
    [method |-> "none", path |-> [stem |-> "", slashes |-> 0],
     has_length |-> FALSE, answer |-> Answer(0, NoState, FALSE),
     active |-> FALSE, calls |-> <<>>, count |-> 0]

InitHttp ==
    /\ body = NoBody
    /\ req = NoReq

\* the server thread handles one GET
DoGet ==
    /\ impl = "zengeeled"
    /\ \E path \in Paths :
         req' = [method |-> "GET", path |-> path, has_length |-> FALSE,
                 answer |-> do_GET(path, is_active, last_rgb),
                 active |-> is_active, calls |-> <<>>, count |-> update_count]
    /\ UNCHANGED <<impl, ctlVars, lsnVars, scanVars, mainVars, body, raceVars, loopVars, flushVars>>

\* the server thread handles one POST of the body the client posts (the
\* Content-Length header and the driver's outcome are drawn where they are
\* consulted)
DoPost ==
    /\ impl = "zengeeled"
    /\ body # NoBody
    /\ update_count < MaxUpdates
    /\ \E path \in Paths, has_length \in BOOLEAN, set_ok \in BOOLEAN :
         LET a == do_POST(path, has_length, body, is_active, last_rgb,
                          update_count, set_ok)
             out == zengeeled_flush(is_active, last_rgb, update_count, a.arg, set_ok)
         IN
         /\ (~a.forwarded \/ out.calls = <<>>) => set_ok
         /\ a.status = 404 => has_length
         /\ IF a.forwarded
            THEN Apply("flush", a.arg, out)
            ELSE UNCHANGED ctlVars
         /\ req' = [method |-> "POST", path |-> path, has_length |-> has_length,
                    answer |-> a, active |-> is_active,
                    calls |-> IF a.forwarded THEN out.calls ELSE <<>>,
                    count |-> IF a.forwarded THEN out.update_count ELSE update_count]
    /\ UNCHANGED <<impl, lsnVars, scanVars, mainVars, body, raceVars, loopVars, flushVars>>

\* --------------------------------------------------------------------- main

\* `if time.time() - scanner.last_scan_time > 60`
CHECK_PERIOD == 60

\* one call on the bulb object of the device bound to address ip
DriverCall(fn, ip, ok) == [fn |-> fn, ip |-> ip, ok |-> ok]

\* the addresses this process has switched on and not off, after one more call
Switched(on, call) ==
    IF call.fn = "turnOn" /\ call.ok THEN on \cup {call.ip}
    ELSE IF call.fn = "turnOff" /\ call.ok THEN on \ {call.ip}
    ELSE on

RECURSIVE SwitchedAll(_, _)
SwitchedAll(on, calls) ==
    IF calls = <<>> THEN on
    ELSE SwitchedAll(Switched(on, Head(calls)), Tail(calls))

\* the driver calls of one ZenggeDevice method, with the bulb's address
At(ip, out) == [i \in DOMAIN out.calls |-> DriverCall(out.calls[i].fn, ip, out.calls[i].ok)]

\* where a KeyboardInterrupt reaches main while it swaps the device
Cuts == {"none", "after_deactivate", "after_construct", "after_activate"}

\* what the `if` block of main's loop leaves behind: the address of the
\* object bound to `device`, active_device_ip, the object's _is_active, the
\* driver calls made, and the exception that leaves the block ("none": none)
Swapped(dev_ip, bound_ip, active, calls, raised) ==
    [device_ip |-> dev_ip, active_device_ip |-> bound_ip, is_active |-> active,
     calls |-> calls, raised |-> raised]

\* openmagic.py main, the block under `if new_device_ip != active_device_ip`:
\* deactivate the old object, construct one for new_device_ip (the schema
\* rejects None), activate it, record the address
swap_device(new_device_ip, bound_ip, dev_ip, active, off_ok, on_ok, cut) ==
    IF new_device_ip = bound_ip
    THEN Swapped(dev_ip, bound_ip, active, <<>>, "none")
    ELSE LET off == deactivate(active, <<>>, 0, off_ok) IN
         IF cut = "after_deactivate"
         THEN Swapped(dev_ip, bound_ip, off.is_active, At(dev_ip, off),
                      "KeyboardInterrupt")
         ELSE IF new_device_ip = NoAddr
         THEN Swapped(dev_ip, bound_ip, off.is_active, At(dev_ip, off), "Invalid")
         ELSE IF cut = "after_construct"
         THEN Swapped(new_device_ip, bound_ip, FALSE, At(dev_ip, off),
                      "KeyboardInterrupt")
         ELSE LET on == openmagic_activate(FALSE, <<>>, 0, on_ok) IN
              IF cut = "after_activate"
              THEN Swapped(new_device_ip, bound_ip, on.is_active,
                           At(dev_ip, off) \o At(new_device_ip, on),
                           "KeyboardInterrupt")
              ELSE Swapped(new_device_ip, new_device_ip, on.is_active,
                           At(dev_ip, off) \o At(new_device_ip, on), "none")

\* main leaving the loop with no finally clause
finally_clause_missing(dev_ip, active, off_ok) ==
    [is_active |-> active, calls |-> <<>>]

\* `finally: device.deactivate()` of both mains, on the object bound to
\* `device` when the loop is left
finally_clause(dev_ip, active, off_ok) ==
    LET off == deactivate(active, <<>>, 0, off_ok) IN
    [is_active |-> off.is_active, calls |-> At(dev_ip, off)]

\* how main ended: the cause, whether the loop had been entered, and the
\* driver calls of the finally clause
NoExit == [cause |-> "running", in_loop |-> FALSE, calls |-> <<>>]
Exit(cause, in_loop, calls) == [cause |-> cause, in_loop |-> in_loop, calls |-> calls]

\* the latest pass through the `if time.time() - ... > 60` block of the loop
\* (n flips at every pass)
NoSwap == [n |-> 0, ret |-> NoAddr, bound |-> NoAddr, cut |-> "none",
           calls |-> <<>>, raised |-> "none"]

\* a ZenggeDevice method call made by main, for the call history
MainCall(opn, pre, calls) ==
    [op |-> opn, rgb |-> <<>>, pre_active |-> pre,
     calls |-> [i \in DOMAIN calls |-> Call(calls[i].fn, <<>>, calls[i].ok)],
     raised |-> FALSE]

InitMain ==
    /\ pc = "start"
    /\ device_ip = NoAddr
    /\ active_device_ip = NoAddr
    /\ turned_on = {}
    /\ listening = {}
    /\ target = NoAddr
    /\ left = NoExit
    /\ swap = NoSwap

\* the scanner fields and history after main called discover_devices (d)
MainDiscovered(d) ==
    /\ devices' = d.devices
    /\ last_scan_time' = d.last_scan_time
    /\ now' = d.t
    /\ disc' = DiscRec(d)
    /\ scan_op' = "discover_devices"

\* the scanner fields and history after main called get_active_device (a)
MainGotActive(a) ==
    /\ devices' = a.devices
    /\ last_scan_time' = a.last_scan_time
    /\ active_device' = a.active_device
    /\ now' = a.t
    /\ disc' = IF a.disc.probed = "skipped" THEN disc ELSE DiscRec(a.disc)
    /\ got' = [called |-> TRUE, pre_devices |-> devices,
               pre_active |-> active_device, ret |-> a.ret, raised |-> a.raised]
    /\ scan_op' = "get_active_device"

\* the process is gone: its sockets are closed, the scanner thread is dead
Ended(cause, in_loop, calls) ==
    /\ pc' = "exited"
    /\ listening' = {}
    /\ left' = Exit(cause, in_loop, calls)

\* openmagic.py main up to the loop: the first scan (return when it finds
\* nothing), the first get_active_device, the device and the listener
\* (bind_ok = FALSE: E131Listener's bind raises and main dies), activate,
\* test_rgb_connection
MainStartOpenmagic ==
    /\ impl = "openmagic"
    /\ pc = "start"
    /\ \E probe \in Probes, bind_ok \in BOOLEAN, on_ok \in BOOLEAN :
         LET d == openmagic_discover_devices(devices, last_scan_time, now, probe)
             a == get_active_device(d.devices, d.last_scan_time, active_device,
                                    d.t, probe)
             on == openmagic_activate(FALSE, <<>>, 0, on_ok)
         IN
         IF d.ret = <<>>
         THEN /\ MainDiscovered(d)
              /\ Ended("no_devices", FALSE, <<>>)
              /\ UNCHANGED <<active_device, got, ctlVars, device_ip,
                             active_device_ip, turned_on, target, swap>>
         ELSE /\ devices' = a.devices
              /\ last_scan_time' = a.last_scan_time
              /\ active_device' = a.active_device
              /\ now' = a.t
              /\ disc' = DiscRec(d)
              /\ got' = [called |-> TRUE, pre_devices |-> d.devices,
                         pre_active |-> active_device, ret |-> a.ret,
                         raised |-> a.raised]
              /\ scan_op' = "get_active_device"
              /\ device_ip' = a.ret
              /\ active_device_ip' = a.ret
              /\ swap' = swap
              /\ IF ~bind_ok
                 THEN /\ Ended("OSError", FALSE, <<>>)
                      /\ UNCHANGED <<ctlVars, turned_on, target>>
                 ELSE /\ pc' = "loop"
                      /\ listening' = {"udp"}
                      /\ left' = left
                      /\ is_active' = on.is_active
                      /\ last' = MainCall("activate", FALSE, At(a.ret, on))
                      /\ pair' = [twice |-> FALSE, calls |-> 0]
                      /\ turned_on' = SwitchedAll(turned_on, At(a.ret, on))
                      /\ target' = a.ret
                      /\ UNCHANGED <<last_rgb, update_count>>
    /\ UNCHANGED <<impl, lsnVars, httpVars, raceVars, loopVars, flushVars>>

\* zengeeled.py main up to the loop: the scan (return when it finds nothing),
\* the device, the UDP listener (udp_ok = FALSE: its bind raises and main
\* dies), activate, the HTTP server (http_ok = FALSE: HTTPServer raises
\* PermissionError or OSError and main returns)
MainStartZengeeled ==
    /\ impl = "zengeeled"
    /\ pc = "start"
    /\ \E probe \in Probes, udp_ok \in BOOLEAN, http_ok \in BOOLEAN,
          on_ok \in BOOLEAN, get_ok \in BOOLEAN :
         LET d == zengeeled_discover_devices(devices, last_scan_time, now, probe)
             on == zengeeled_activate(FALSE, last_rgb, update_count, on_ok, get_ok)
         IN
         /\ MainDiscovered(d)
         /\ IF d.ret = <<>>
            THEN /\ Ended("no_devices", FALSE, <<>>)
                 /\ UNCHANGED <<ctlVars, device_ip, active_device_ip, turned_on>>
            ELSE /\ device_ip' = d.ret[1]
                 /\ active_device_ip' = d.ret[1]
                 /\ IF ~udp_ok
                    THEN /\ Ended("OSError", FALSE, <<>>)
                         /\ UNCHANGED <<ctlVars, turned_on>>
                    ELSE /\ is_active' = on.is_active
                         /\ last' = MainCall("activate", FALSE, At(d.ret[1], on))
                         /\ pair' = [twice |-> FALSE, calls |-> 0]
                         /\ turned_on' = SwitchedAll(turned_on, At(d.ret[1], on))
                         /\ UNCHANGED <<last_rgb, update_count>>
                         /\ IF http_ok
                            THEN /\ pc' = "loop"
                                 /\ listening' = {"udp", "http"}
                                 /\ left' = left
                            ELSE Ended("bind_failed", FALSE, <<>>)
    /\ UNCHANGED <<impl, lsnVars, httpVars, active_device, got, target, swap,
                   raceVars, loopVars, flushVars>>

\* a minute and a second pass while main waits in recvfrom
Minute ==
    /\ pc = "loop"
    /\ now + CHECK_PERIOD + 1 <= StartTime + MaxUptime
    /\ now' = now + CHECK_PERIOD + 1
    /\ scan_op' = "tick"
    /\ UNCHANGED <<impl, ctlVars, lsnVars, httpVars, mainVars, devices,
                   last_scan_time, active_device, disc, got,
                   raceVars, loopVars, flushVars>>

\* the background scanner thread of openmagic.py calls discover_devices
BackgroundScan ==
    /\ impl = "openmagic"
    /\ pc = "loop"
    /\ now + scan_timeout <= StartTime + MaxUptime
    /\ \E probe \in Probes :
         /\ now - last_scan_time < RATE_LIMIT => ~probe.ok
         /\ MainDiscovered(openmagic_discover_devices(devices, last_scan_time, now, probe))
    /\ UNCHANGED <<impl, ctlVars, lsnVars, httpVars, mainVars, active_device, got,
                   raceVars, loopVars, flushVars>>

\* openmagic.py main, the `if time.time() - scanner.last_scan_time > 60`
\* block when a minute has passed since the last scan: get_active_device,
\* and the swap when it differs; an exception in the swap runs the finally
\* clause and ends main
ReevaluateBlock ==
    /\ impl = "openmagic"
    /\ pc = "loop"
    /\ now - last_scan_time > CHECK_PERIOD
    /\ now + scan_timeout <= StartTime + MaxUptime
    /\ \E probe \in Probes, off_ok \in BOOLEAN, on_ok \in BOOLEAN,
          last_ok \in BOOLEAN, cut \in Cuts :
         LET a == get_active_device(devices, last_scan_time, active_device, now, probe)
             s == swap_device(a.ret, active_device_ip, device_ip, is_active,
                              off_ok, on_ok, cut)
             f == finally_clause(s.device_ip, s.is_active, last_ok)
             calls == IF s.raised = "none" THEN s.calls ELSE s.calls \o f.calls
         IN
         /\ a.ret = active_device_ip => (cut = "none" /\ off_ok /\ on_ok)
         /\ s.raised = "none" => last_ok
         /\ (devices # <<>> \/ now - last_scan_time < RATE_LIMIT) => ~probe.ok
         /\ MainGotActive(a)
         /\ swap' = [n |-> 1 - swap.n, ret |-> a.ret, bound |-> active_device_ip,
                     cut |-> cut, calls |-> s.calls, raised |-> s.raised]
         /\ device_ip' = s.device_ip
         /\ active_device_ip' = s.active_device_ip
         /\ turned_on' = SwitchedAll(turned_on, calls)
         /\ IF calls = <<>>
            THEN UNCHANGED <<is_active, last, pair>>
            ELSE /\ is_active' = IF s.raised = "none" THEN s.is_active ELSE f.is_active
                 /\ last' = MainCall(IF s.raised = "none" THEN "activate" ELSE "deactivate",
                                     FALSE, <<calls[Len(calls)]>>)
                 /\ pair' = [twice |-> FALSE, calls |-> 0]
         /\ IF s.raised = "none"
            THEN UNCHANGED <<pc, listening, left>>
            ELSE Ended(s.raised, TRUE, f.calls)
    /\ UNCHANGED <<impl, lsnVars, httpVars, last_rgb, update_count, target,
                   raceVars, flushVars>>

\* openmagic.py main, the first half of a loop turn when a minute has passed
\* since the last scan (datagrams keep arriving: the turn is not followed
\* into recvfrom)
Reevaluate ==
    /\ ReevaluateBlock
    /\ UNCHANGED loopVars

\* the frame that arrives, turn after turn, while main is followed (main does
\* not look at the components)
LoopFrames == {<<MaxByte, MaxByte, MaxByte>>}

\* openmagic.py main, `if rgb_data: device.flush(rgb_data)` with a frame
\* received: it is flushed to the object bound to `device`
FlushFrame ==
    /\ impl = "openmagic"
    /\ pc = "loop"
    /\ \E rgb_data \in LoopFrames, set_ok \in BOOLEAN :
         LET out == openmagic_flush(is_active, last_rgb, update_count, rgb_data, set_ok) IN
         /\ Apply("flush", rgb_data, out)
         /\ target' = IF out.calls = <<>> THEN target ELSE device_ip
    /\ UNCHANGED <<impl, lsnVars, httpVars, scanVars, pc, device_ip,
                   active_device_ip, turned_on, listening, left, swap,
                   raceVars, flushVars>>

\* openmagic.py main, the second half of a loop turn: a frame arrives and is
\* flushed to the object bound to `device`
ForwardOpenmagic ==
    /\ FlushFrame
    /\ UNCHANGED loopVars

\* zengeeled.py main, a loop turn in which a frame arrives
ForwardZengeeled ==
    /\ impl = "zengeeled"
    /\ pc = "loop"
    /\ update_count < MaxUpdates
    /\ \E rgb_data \in LoopFrames, set_ok \in BOOLEAN :
         LET out == zengeeled_flush(is_active, last_rgb, update_count, rgb_data, set_ok) IN
         /\ Apply("flush", rgb_data, out)
         /\ target' = IF out.calls = <<>> THEN target ELSE device_ip
    /\ UNCHANGED <<impl, lsnVars, httpVars, scanVars, pc, device_ip,
                   active_device_ip, turned_on, listening, left, swap,
                   raceVars, loopVars, flushVars>>

\* KeyboardInterrupt reaches main while it waits in the loop: the finally
\* clause runs and main returns
Interrupt ==
    /\ pc = "loop"
    /\ \E off_ok \in BOOLEAN :
         LET f == finally_clause(device_ip, is_active, off_ok) IN
         /\ is_active' = f.is_active
         /\ last' = MainCall("deactivate", is_active, f.calls)
         /\ pair' = [twice |-> FALSE, calls |-> 0]
         /\ turned_on' = SwitchedAll(turned_on, f.calls)
         /\ Ended("KeyboardInterrupt", TRUE, f.calls)
    /\ UNCHANGED <<impl, lsnVars, httpVars, scanVars, last_rgb, update_count,
                   device_ip, active_device_ip, target, swap,
                   raceVars, loopVars, flushVars>>

\* ------------------------------------- main's loop, statement by statement

InitLoop == waiting = FALSE

\* `time.time() - scanner.last_scan_time > 60`
Due == now - last_scan_time > CHECK_PERIOD

\* openmagic.py main, the top of a loop turn: the `if` block when it is due,
\* then listener.receive_packet() is entered and main waits in
\* self.sock.recvfrom(1024); the socket is a blocking one with no timeout
LoopCheck ==
    /\ impl = "openmagic"
    /\ pc = "loop"
    /\ ~waiting
    /\ \/ ReevaluateBlock
       \/ /\ ~Due
          /\ UNCHANGED <<impl, ctlVars, lsnVars, scanVars, httpVars, mainVars,
                         raceVars, flushVars>>
    /\ waiting' = (pc' = "loop")

\* a datagram reaches the socket: recvfrom returns, the frame (if the
\* datagram holds one) is flushed, and main is back at the top of the loop
DatagramArrives ==
    /\ impl = "openmagic"
    /\ pc = "loop"
    /\ waiting
    /\ \/ FlushFrame
       \/ UNCHANGED <<impl, ctlVars, lsnVars, scanVars, httpVars, mainVars,
                      raceVars, flushVars>>
    /\ waiting' = FALSE

\* ------------------------------- ZenggeDevice.flush, statement by statement

\* the two threads of zengeeled.py that call flush on the one device: main's
\* loop (frames from UDP) and the HTTP server thread (frames from do_POST)
FlushThreads == {"loop", "http"}

\* where a thread is:
\*   "idle"    outside flush
\*   "call"    in flush, past the tests and `self.update_count += 1`, at
\*             `self.bulb.setRgb(r, g, b, persist=False)`
\*   "record"  in flush, setRgb returned, at `self.last_rgb = [r, g, b]`
NoColour == <<>>

\* the frames the two producers send
RaceFrames == {Black, <<MaxByte, 0, 0>>, <<0, MaxByte, 0>>}

InitFlush ==
    /\ fl_at = [t \in FlushThreads |-> "idle"]
    /\ fl_rgb = [t \in FlushThreads |-> NoColour]
    /\ shown = NoColour

\* flush is called and runs up to the driver call: `if not self._is_active`,
\* the unpacking, `if self.last_rgb == [r, g, b]: return`, the count
FlushEnter ==
    /\ impl = "zengeeled"
    /\ update_count < MaxUpdates
    /\ \E t \in FlushThreads, rgb_data \in RaceFrames :
         /\ fl_at[t] = "idle"
         /\ IF ~is_active \/ last_rgb = rgb_data
            THEN UNCHANGED <<fl_at, fl_rgb, update_count>>
            ELSE /\ fl_at' = [fl_at EXCEPT ![t] = "call"]
                 /\ fl_rgb' = [fl_rgb EXCEPT ![t] = rgb_data]
                 /\ update_count' = update_count + 1
    /\ UNCHANGED <<impl, is_active, last_rgb, last, pair, lsnVars, scanVars,
                   httpVars, mainVars, raceVars, loopVars, shown>>

\* `self.bulb.setRgb(r, g, b, persist=False)`: the driver accepts the colour,
\* or it raises and the except clause ends the call
FlushCall ==
    /\ \E t \in FlushThreads, set_ok \in BOOLEAN :
         /\ fl_at[t] = "call"
         /\ IF set_ok
            THEN /\ shown' = fl_rgb[t]
                 /\ fl_at' = [fl_at EXCEPT ![t] = "record"]
                 /\ UNCHANGED fl_rgb
            ELSE /\ fl_at' = [fl_at EXCEPT ![t] = "idle"]
                 /\ fl_rgb' = [fl_rgb EXCEPT ![t] = NoColour]
                 /\ UNCHANGED shown
    /\ UNCHANGED <<impl, ctlVars, lsnVars, scanVars, httpVars, mainVars,
                   raceVars, loopVars>>

\* `self.last_rgb = [r, g, b]`, and the call returns
FlushRecord ==
    /\ \E t \in FlushThreads :
         /\ fl_at[t] = "record"
         /\ last_rgb' = fl_rgb[t]
         /\ fl_at' = [fl_at EXCEPT ![t] = "idle"]
         /\ fl_rgb' = [fl_rgb EXCEPT ![t] = NoColour]
    /\ UNCHANGED <<impl, is_active, update_count, last, pair, lsnVars, scanVars,
                   httpVars, mainVars, raceVars, loopVars, shown>>

\* ------------------------------------------- DeviceScanner, statement by statement

\* the two threads that call the scanner of openmagic.py: main (through
\* get_active_device) and the background scanner thread (discover_devices)
Threads == {"main", "scanner"}

\* where a thread is:
\*   "idle"      outside the scanner's methods
\*   "discover"  main, in get_active_device, about to call discover_devices
\*   "found"     in discover_devices under scan_lock, device_ips built
\*   "stamp"     in discover_devices under scan_lock, self.devices assigned
\*   "test"      main, at `if self.devices:`
\*   "check"     main, at `if self.active_device is None or ... not in ...`
\*   "assign"    main, at `self.active_device = self.devices[0]`
\*   "return"    main, at `return self.active_device`
\*   "raised"    main, an exception left get_active_device
\* where a thread goes when its discover_devices returns
AfterDiscover(t) == IF t = "main" THEN "test" ELSE "idle"

\* the latest assignment to a field of the scanner: the thread, the field,
\* the value it replaced, whether the thread held scan_lock, and whether it
\* replaced self.devices while the other thread was inside get_active_device
NoWrite == [by |-> "none", field |-> "none", old |-> <<>>, locked |-> TRUE,
            overlap |-> FALSE]
Write(t, field, old) ==
    [by |-> t, field |-> field, old |-> old, locked |-> scan_lock = t,
     overlap |-> field = "devices" /\ t = "scanner"
                   /\ at["main"] \in {"test", "check", "assign", "return"}]

\* get_active_device's test reassigning only an unset active_device
needs_reassign_only_when_unset(act, devs) == act = NoAddr

\* `self.active_device is None or self.active_device not in self.devices`
needs_reassign(act, devs) == act = NoAddr \/ act \notin Range(devs)

InitRace ==
    /\ scan_lock = "free"
    /\ at = [t \in Threads |-> "idle"]
    /\ ips = [t \in Threads |-> <<>>]
    /\ write = NoWrite
    /\ valid = TRUE

\* get_active_device is entered: `if not self.devices:`
GetEnter ==
    /\ at["main"] = "idle"
    /\ at' = [at EXCEPT !["main"] = IF devices = <<>> THEN "discover" ELSE "test"]
    /\ scan_op' = "get_active_device"
    /\ UNCHANGED <<devices, last_scan_time, active_device, now, disc, got,
                   scan_lock, ips, write, valid>>
    /\ UNCHANGED <<impl, ctlVars, lsnVars, httpVars, mainVars, loopVars, flushVars>>

\* discover_devices up to the assignments: scan_lock is taken, the rate
\* limit is tested, the network is probed for scan_timeout seconds; the lock
\* is released at once when the call returns the cached list or [].
ScanBegin ==
    /\ scan_lock = "free"
    /\ now + scan_timeout <= StartTime + Horizon
    /\ \E t \in Threads, probe \in Probes :
         /\ at[t] = (IF t = "main" THEN "discover" ELSE "idle")
         /\ IF now - last_scan_time < RATE_LIMIT \/ ~probe.ok
            THEN /\ at' = [at EXCEPT ![t] = AfterDiscover(t)]
                 /\ UNCHANGED <<scan_lock, ips, now>>
            ELSE /\ at' = [at EXCEPT ![t] = "found"]
                 /\ scan_lock' = t
                 /\ ips' = [ips EXCEPT ![t] = probe.found]
                 /\ now' = now + scan_timeout
    /\ scan_op' = "discover_devices"
    /\ UNCHANGED <<devices, last_scan_time, active_device, disc, got, write, valid>>
    /\ UNCHANGED <<impl, ctlVars, lsnVars, httpVars, mainVars, loopVars, flushVars>>

\* `self.devices = device_ips`
ScanAssign ==
    /\ \E t \in Threads :
         /\ at[t] = "found"
         /\ devices' = ips[t]
         /\ write' = Write(t, "devices", devices)
         /\ at' = [at EXCEPT ![t] = "stamp"]
    /\ valid' = FALSE
    /\ UNCHANGED <<last_scan_time, active_device, now, scan_op, disc, got,
                   scan_lock, ips>>
    /\ UNCHANGED <<impl, ctlVars, lsnVars, httpVars, mainVars, loopVars, flushVars>>

\* `self.last_scan_time = time.time()`, `return self.devices`, and the end
\* of the `with self.scan_lock` block
ScanStamp ==
    /\ \E t \in Threads :
         /\ at[t] = "stamp"
         /\ last_scan_time' = now
         /\ write' = Write(t, "last_scan_time", <<last_scan_time>>)
         /\ scan_lock' = "free"
         /\ at' = [at EXCEPT ![t] = AfterDiscover(t)]
         /\ ips' = [ips EXCEPT ![t] = <<>>]
    /\ UNCHANGED <<devices, active_device, now, scan_op, disc, got, valid>>
    /\ UNCHANGED <<impl, ctlVars, lsnVars, httpVars, mainVars, loopVars, flushVars>>

\* `if self.devices:` and, when it is false, `return None`
GetTest ==
    /\ at["main"] = "test"
    /\ at' = [at EXCEPT !["main"] = IF devices # <<>> THEN "check" ELSE "idle"]
    /\ UNCHANGED <<devices, last_scan_time, active_device, now, scan_op, disc,
                   got, scan_lock, ips, write, valid>>
    /\ UNCHANGED <<impl, ctlVars, lsnVars, httpVars, mainVars, loopVars, flushVars>>

\* `if self.active_device is None or self.active_device not in self.devices:`
GetCheck ==
    /\ at["main"] = "check"
    /\ IF needs_reassign(active_device, devices)
       THEN at' = [at EXCEPT !["main"] = "assign"] /\ valid' = valid
       ELSE at' = [at EXCEPT !["main"] = "return"] /\ valid' = TRUE
    /\ UNCHANGED <<devices, last_scan_time, active_device, now, scan_op, disc,
                   got, scan_lock, ips, write>>
    /\ UNCHANGED <<impl, ctlVars, lsnVars, httpVars, mainVars, loopVars, flushVars>>

\* `self.active_device = self.devices[0]`: IndexError when a scan has
\* emptied self.devices meanwhile
GetAssign ==
    /\ at["main"] = "assign"
    /\ IF devices = <<>>
       THEN /\ at' = [at EXCEPT !["main"] = "raised"]
            /\ UNCHANGED <<active_device, write, valid>>
       ELSE /\ at' = [at EXCEPT !["main"] = "return"]
            /\ active_device' = devices[1]
            /\ write' = Write("main", "active_device", <<active_device>>)
            /\ valid' = TRUE
    /\ UNCHANGED <<devices, last_scan_time, now, scan_op, disc, got, scan_lock, ips>>
    /\ UNCHANGED <<impl, ctlVars, lsnVars, httpVars, mainVars, loopVars, flushVars>>

\* `return self.active_device`
GetReturn ==
    /\ at["main"] = "return"
    /\ at' = [at EXCEPT !["main"] = "idle"]
    /\ UNCHANGED <<devices, last_scan_time, active_device, now, scan_op, disc,
                   got, scan_lock, ips, write, valid>>
    /\ UNCHANGED <<impl, ctlVars, lsnVars, httpVars, mainVars, loopVars, flushVars>>

InitRaceScanner ==
    /\ impl = "openmagic"
    /\ InitDevice
    /\ InitListener
    /\ InitScanner
    /\ InitHttp
    /\ InitMain
    /\ InitRace
    /\ InitLoop
    /\ InitFlush


Init ==
    /\ impl \in Impls
    /\ InitDevice
    /\ InitListener
    /\ InitScanner
    /\ InitHttp
    /\ InitMain
    /\ InitRace
    /\ InitLoop
    /\ InitFlush

Next ==
    \/ ActivateOpenmagic
    \/ ActivateZengeeled
    \/ Deactivate
    \/ FlushOpenmagic
    \/ FlushZengeeled

Spec == Init /\ [][Next]_vars

\* the ingest loop: the device is activated and deactivated around it
NextIngest ==
    \/ ActivateOpenmagic
    \/ ActivateZengeeled
    \/ Deactivate
    \/ IngestOpenmagic
    \/ IngestZengeeled

\* the producer keeps sending one datagram, drawn from every datagram of the
\* protocol the running script listens to
InitIngest ==
    /\ impl \in Impls
    /\ InitDevice
    /\ dgram \in (IF impl = "openmagic" THEN SacnPackets ELSE WledPackets)
    /\ rx = [got |-> FALSE, recv_ok |-> FALSE, ret |-> None, flushed |-> FALSE]
    /\ InitScanner
    /\ InitHttp
    /\ InitMain
    /\ InitRace
    /\ InitLoop
    /\ InitFlush

SpecIngest == InitIngest /\ [][NextIngest]_vars

\* the scanner, called by main and by the background thread as time passes
NextScanner ==
    \/ Tick
    \/ DiscoverOpenmagic
    \/ DiscoverZengeeled
    \/ GetActive

SpecScanner == Init /\ [][NextScanner]_vars

\* zengeeled.py's HTTP server: the server thread answers requests while main
\* activates and deactivates the device
NextHttp ==
    \/ ActivateZengeeled
    \/ Deactivate
    \/ DoGet
    \/ DoPost

\* the HTTP client keeps posting one body, drawn from PostBodies
InitHttpClient ==
    /\ impl = "zengeeled"
    /\ InitDevice
    /\ InitListener
    /\ InitScanner
    /\ body \in PostBodies
    /\ req = NoReq
    /\ InitMain
    /\ InitRace
    /\ InitLoop
    /\ InitFlush

SpecHttp == InitHttpClient /\ [][NextHttp]_vars

\* the same, with main's loop forwarding UDP frames meanwhile
NextRoundTrip ==
    \/ ActivateZengeeled
    \/ Deactivate
    \/ IngestZengeeled
    \/ DoGet
    \/ DoPost

\* the DRGB datagram the UDP producer keeps sending: every component is MaxByte
UdpFrame ==
    [kind |-> "wled", len |-> 5, tag |-> 2, uni |-> 0, base |-> MaxByte, step |-> 0]

\* the frame the HTTP client posts: the initial last_rgb, the UDP producer's
\* frame, or neither
RoundTripFrames == {Black, <<MaxByte, MaxByte, MaxByte>>, <<MaxByte, 0, 0>>}

\* the HTTP client keeps posting one frame, the UDP producer keeps sending
\* UdpFrame
InitRoundTrip ==
    /\ impl = "zengeeled"
    /\ InitDevice
    /\ dgram = UdpFrame
    /\ rx = [got |-> FALSE, recv_ok |-> FALSE, ret |-> None, flushed |-> FALSE]
    /\ InitScanner
    /\ body \in [kind : {"col0_len3"}, f : RoundTripFrames]
    /\ req = NoReq
    /\ InitMain
    /\ InitRace
    /\ InitLoop
    /\ InitFlush

SpecRoundTrip == InitRoundTrip /\ [][NextRoundTrip]_vars

\* main of either script, from its start to its end
NextMain ==
    \/ MainStartOpenmagic
    \/ MainStartZengeeled
    \/ Minute
    \/ BackgroundScan
    \/ Reevaluate
    \/ ForwardOpenmagic
    \/ ForwardZengeeled
    \/ Interrupt

SpecMain == Init /\ [][NextMain]_vars

\* main of openmagic.py with its loop followed into recvfrom
NextLoop ==
    \/ MainStartOpenmagic
    \/ Minute
    \/ BackgroundScan
    \/ LoopCheck
    \/ DatagramArrives
    \/ Interrupt

\* main runs when it can and time passes; nothing makes a datagram or an
\* interrupt arrive
SpecLoop ==
    /\ InitRaceScanner
    /\ [][NextLoop]_vars
    /\ WF_vars(LoopCheck)
    /\ WF_vars(Minute)

\* zengeeled.py: the device is activated, then main's loop and the HTTP
\* server thread flush to it, a statement at a time
NextFlushRace ==
    \/ ActivateZengeeled
    \/ FlushEnter
    \/ FlushCall
    \/ FlushRecord

InitZengeeled ==
    /\ impl = "zengeeled"
    /\ Init

SpecFlushRace == InitZengeeled /\ [][NextFlushRace]_vars

\* the scanner of openmagic.py under main and the background scanner thread,
\* a statement at a time
NextRace ==
    \/ Tick
    \/ GetEnter
    \/ ScanBegin
    \/ ScanAssign
    \/ ScanStamp
    \/ GetTest
    \/ GetCheck
    \/ GetAssign
    \/ GetReturn

SpecRace == InitRaceScanner /\ [][NextRace]_vars

\* =================================================================== claims

\* ---- C1 (checked under Spec)
\* C1: for every Frame f and every active controller, flush(f) called twice in
\* a row makes exactly one driver setRgb call in total, and the second call
\* makes none.
C1_FlushTwiceOneDriverCall ==
    (pair.twice /\ Len(last.rgb) = 3) =>
        (pair.calls = 1 /\ last.calls = <<>>)

\* ---- C2 (checked under Spec)
\* C2: after deactivate() returns the active flag is false, whether turnOff
\* succeeded or raised.
C2_DeactivateClearsActive ==
    last.op = "deactivate" => ~is_active

\* ---- C3 (checked under Spec)
\* C3: after activate() returns, the controller is active if and only if the
\* driver's power-on call (turnOn, the first driver call activate makes)
\* succeeded, and no exception leaves activate.
C3_ActiveIffPowerOn ==
    last.op = "activate" =>
        /\ is_active = last.calls[1].ok
        /\ ~last.raised

\* ---- C4 (checked under Spec)
\* C4: a flush entered while the controller is not active makes no driver
\* call and leaves last_rgb and update_count as they were, for every rgb_data
\* and after any sequence of earlier calls.
C4_InactiveFlushIsNoOp ==
    [][(last'.op = "flush" /\ ~is_active) =>
          /\ last'.calls = <<>>
          /\ ~last'.raised
          /\ last_rgb' = last_rgb
          /\ update_count' = update_count
          /\ is_active' = is_active]_vars

\* C4's case: a flush of a frame other than last_rgb on a controller that
\* was active, took updates, and was deactivated before the flush
C4_Witness ==
    /\ last.op = "flush"
    /\ ~last.pre_active
    /\ Len(last.rgb) = 3
    /\ last.rgb # last_rgb
    /\ update_count > 0

\* ---- C8 (checked under SpecIngest)
\* the datagram is shorter than the minimum length of the variant it would
\* otherwise match
BelowMinimum(pkt) ==
    \/ pkt.kind = "sacn" /\ pkt.len < 126
    \/ pkt.kind = "wled" /\ pkt.tag = 2 /\ pkt.len < 5
    \/ pkt.kind = "wled" /\ pkt.tag = 1 /\ pkt.len < 6
    \/ pkt.kind = "wled" /\ pkt.tag = 4 /\ pkt.len < 7

\* C8: for a received datagram below its variant's minimum length,
\* receive_packet returns None, without an index or unpack error inside (no
\* read outside the payload), and the loop does not call flush.
C8_ShortPayloadIsNone ==
    (rx.got /\ rx.recv_ok /\ BelowMinimum(dgram)) =>
        /\ rx.ret.isNone
        /\ ~rx.ret.exc
        /\ ~rx.flushed

\* C8's case: a DNRGB datagram one byte short of its minimum was received
\* while the device was active
C8_Witness ==
    /\ rx.got /\ rx.recv_ok
    /\ dgram.kind = "wled" /\ dgram.tag = 4 /\ dgram.len = 6
    /\ is_active

\* ---- C9 (checked under SpecIngest)
\* the three bytes of the datagram from 0-based offset k on
BytesAt(pkt, k) == <<Fill(pkt, k), Fill(pkt, k + 1), Fill(pkt, k + 2)>>

\* C9: a WLED datagram that meets its variant's minimum length decodes to
\* exactly the three bytes at the variant's offset (DRGB 2, WARLS 3, DNRGB
\* 4); a datagram with any other leading byte decodes to None.
C9_WledDecode ==
    (rx.got /\ rx.recv_ok /\ dgram.kind = "wled" /\ dgram.len >= 1) =>
        /\ (dgram.tag = 2 /\ dgram.len >= 5) => rx.ret = List(BytesAt(dgram, 2))
        /\ (dgram.tag = 1 /\ dgram.len >= 6) => rx.ret = List(BytesAt(dgram, 3))
        /\ (dgram.tag = 4 /\ dgram.len >= 7) => rx.ret = List(BytesAt(dgram, 4))
        /\ dgram.tag \notin {1, 2, 4} => rx.ret = None

\* C9's case: a DNRGB datagram of at least 7 bytes, whose bytes differ from
\* offset to offset, was decoded to a frame
C9_Witness ==
    /\ rx.got /\ rx.recv_ok
    /\ dgram.kind = "wled" /\ dgram.tag = 4 /\ dgram.len >= 7 /\ dgram.step = 1
    /\ ~rx.ret.isNone

\* ---- C10 (checked under SpecIngest)
\* C10: an sACN datagram that passes the length gate and carries the
\* configured universe decodes to exactly the three bytes at offsets 126..128.
C10_SacnDecodeIsFrame ==
    (rx.got /\ rx.recv_ok /\ dgram.kind = "sacn" /\ dgram.len >= 126
       /\ dgram.uni = E131_UNIVERSE) =>
        /\ ~rx.ret.isNone
        /\ Len(rx.ret.v) = 3
        /\ rx.ret.v = BytesAt(dgram, 126)

\* ---- C5 (checked under SpecScanner)
\* C5: a discover_devices call entered less than 10 seconds after the
\* previous discover_devices call returned makes no network probe and
\* returns what that previous call returned, whether the previous call's
\* probe succeeded or failed.
C5_SecondDiscoverIsCached ==
    [][(scan_op' = "discover_devices" /\ disc.called /\ now - disc.done < 10) =>
          /\ disc'.probed = "none"
          /\ disc'.ret = disc.ret]_vars

C7_FailedProbeReturnsEmpty ==
    (disc.called /\ disc.probed = "fail") =>
        /\ disc.ret = <<>>
        /\ ~disc.raised

\* C7's case: the probe of the latest discover_devices call failed while
\* the scanner held a non-empty device list from an earlier scan
C7_Witness ==
    /\ scan_op = "discover_devices"
    /\ disc.called /\ disc.probed = "fail"
    /\ devices # <<>>

\* ---- C11 (checked under SpecIngest)
\* C11: a loop turn of openmagic that receives an sACN datagram whose
\* universe field at offset 113 differs from the configured universe, with
\* any bytes from offset 126 on, decodes it to None, calls no driver method
\* and leaves the controller's fields as they were.
C11_ForeignUniverseIsDropped ==
    [][(/\ last'.op \in {"none", "flush"}
        /\ rx'.got /\ rx'.recv_ok
        /\ dgram.kind = "sacn" /\ dgram.len >= 115
        /\ dgram.uni # E131_UNIVERSE) =>
          /\ rx'.ret = None
          /\ ~rx'.flushed
          /\ last'.op = "none"
          /\ last'.calls = <<>>
          /\ UNCHANGED <<is_active, last_rgb, update_count>>]_vars

\* C11's case: a datagram carrying RGB bytes, whose universe field 0x0101
\* shares its low byte with the configured universe 1, was received while
\* the device was active, and was dropped
C11_Witness ==
    /\ rx.got /\ rx.recv_ok
    /\ dgram.kind = "sacn" /\ dgram.len >= 129 /\ dgram.uni = 256 + E131_UNIVERSE
    /\ is_active
    /\ rx.ret.isNone

\* ---- C12 (checked under SpecHttp)
\* the body is JSON that carries seg[0].col[0] as a 3-element list
HasFrame(b) ==
    LET v == Parsed(b).v IN
    /\ Parsed(b).json
    /\ v.t = "dict" /\ "seg" \in DOMAIN v.d
    /\ v.d.seg.t = "list" /\ Len(v.d.seg.items) > 0
    /\ v.d.seg.items[1].t = "dict" /\ "col" \in DOMAIN v.d.seg.items[1].d
    /\ v.d.seg.items[1].d.col.t = "list" /\ Len(v.d.seg.items[1].d.col.items) > 0
    /\ v.d.seg.items[1].d.col.items[1].t = "list"
    /\ Len(v.d.seg.items[1].d.col.items[1].items) = 3

StatePath == [stem |-> "/json/state", slashes |-> 0]

\* C12: a POST /json/state (with a Content-Length header) whose body carries
\* seg[0].col[0] = [r, g, b] makes the handler call flush with exactly
\* [r, g, b] and answer 200 with the body {"success":true}.
C12_PostForwardsFrame ==
    (req.method = "POST" /\ req.path = StatePath /\ req.has_length
       /\ HasFrame(body)) =>
        /\ req.answer.forwarded
        /\ req.answer.arg = body.f
        /\ req.answer.status = 200
        /\ req.answer.success

\* C12's case: a frame with a lit component was posted among three colours
\* to an active device, answered with success, and reached the bulb
C12_Witness ==
    /\ req.method = "POST" /\ req.path = StatePath /\ req.has_length
    /\ body.kind = "col0_len3_full" /\ body.f # Black
    /\ req.answer.success
    /\ req.active
    /\ last_rgb = body.f

\* ---- C13 (checked under SpecHttp)
\* C13: a POST /json/state whose body is not JSON, or is JSON without
\* seg[0].col[0] as a 3-element list, is answered with a 5xx status, not with
\* {"success":true}, and flush is not called.
C13_MalformedPostIsServerError ==
    (req.method = "POST" /\ req.path = StatePath /\ req.has_length
       /\ ~HasFrame(body)) =>
        /\ req.answer.status \in 500..599
        /\ ~req.answer.success
        /\ ~req.answer.forwarded

\* ---- C15 (checked under SpecHttp)
\* a step in which the server handles a GET
GetStep == req'.method = "GET" /\ req' # req

\* C15 as claimed: GET /json/info and GET /json are answered 200, a GET of
\* any other path string is answered with another status, and a GET leaves
\* the controller's fields unchanged.
C15_OnlyTwoPathsAnswer200 ==
    [][GetStep =>
          /\ req'.answer.status = 200 <=>
                req'.path \in {[stem |-> "/json/info", slashes |-> 0],
                               [stem |-> "/json", slashes |-> 0]}
          /\ UNCHANGED <<is_active, last_rgb, update_count>>]_vars

\* C15 as the code has it: a GET is answered 200 when its path, with the
\* trailing slashes stripped, is /json/info or /json, and 404 otherwise; a
\* GET leaves the controller's fields unchanged.
C15_StrippedPathAnswers200 ==
    [][GetStep =>
          /\ req'.answer.status = 200 <=> req'.path.stem \in {"/json/info", "/json"}
          /\ req'.answer.status \in {200, 404}
          /\ UNCHANGED <<is_active, last_rgb, update_count>>]_vars

\* C15's case: GET /json/ (one trailing slash) was answered 200 while the
\* device was active and showed a colour
C15_Witness ==
    /\ req.method = "GET" /\ req.path.stem = "/json" /\ req.path.slashes > 0
    /\ req.answer.status = 200
    /\ is_active /\ last_rgb # Black

\* ---- C14 (checked under SpecRoundTrip)
StateQuery == [stem |-> "/json", slashes |-> 0]

\* the latest request handled was a POST /json/state that pushed body.f
Pushed == req.method = "POST" /\ req.path = StatePath /\ req.answer.forwarded

Accepted == req.active /\ \A i \in DOMAIN req.calls : req.calls[i].ok

ReevaluateStep == swap'.n # swap.n /\ swap'.cut = "none"

\* C16: when the re-evaluation gets from get_active_device a value other
\* than active_device_ip, main calls turnOff on the bound device and then
\* turnOn on a device bound to that value, after which `device` and
\* active_device_ip hold that value and the loop goes on; when the value is
\* active_device_ip no driver call is made and the device is left as it was;
\* and every frame of the loop goes to the address in active_device_ip.
C16_SwapFollowsGetActive ==
    [][/\ ReevaluateStep =>
            IF swap'.ret # active_device_ip
            THEN /\ Len(swap'.calls) = 2
                 /\ swap'.calls[1].fn = "turnOff" /\ swap'.calls[1].ip = device_ip
                 /\ swap'.calls[2].fn = "turnOn" /\ swap'.calls[2].ip = swap'.ret
                 /\ device_ip' = swap'.ret
                 /\ active_device_ip' = swap'.ret
                 /\ pc' = "loop"
            ELSE /\ swap'.calls = <<>>
                 /\ UNCHANGED <<device_ip, active_device_ip, is_active>>
       /\ (pc = "loop" /\ target' # target) =>
            target' = active_device_ip /\ target' = device_ip]_vars

\* ---- C17 (checked under SpecMain)
\* C17: when main ends at startup because the first scan found no device or
\* because the HTTP server could not be bound, no socket of the process is
\* bound, the device object is not marked active and no bulb is left
\* switched on by the process.
C17_FailedStartupLeavesNothing ==
    (pc = "exited" /\ left.cause \in {"no_devices", "bind_failed"}) =>
        /\ listening = {}
        /\ ~is_active
        /\ turned_on = {}

\* ---- C18 (checked under SpecMain)
\* C18: when main has ended after entering the loop, the last driver call it
\* made was turnOff on the bulb of the object bound to `device` at that
\* moment.
C18_ExitPowersOffBoundDevice ==
    (pc = "exited" /\ left.in_loop) =>
        /\ left.calls # <<>>
        /\ left.calls[Len(left.calls)].fn = "turnOff"
        /\ left.calls[Len(left.calls)].ip = device_ip

\* C18's case: main swapped to another device in the loop, was interrupted
\* later, and its finally clause called turnOff on the new device
C18_Witness ==
    /\ pc = "exited" /\ left.in_loop
    /\ left.cause = "KeyboardInterrupt"
    /\ swap.raised = "none" /\ swap.ret # swap.bound
    /\ left.calls[1].ip = swap.ret

\* ---- C19 (checked under SpecRace)
\* C19 as claimed: in every state, when self.devices is non-empty,
\* self.active_device is None or an element of self.devices.
C19_ActiveIsKnown ==
    devices # <<>> => (active_device = NoAddr \/ active_device \in Range(devices))

\* C19 as the code has it: the same, in the states in which no scan has
\* replaced self.devices since get_active_device last tested or assigned
\* self.active_device.
C19_ActiveIsKnownOnceChecked ==
    (valid /\ devices # <<>>) =>
        (active_device = NoAddr \/ active_device \in Range(devices))

\* C19's case: a scan dropped the active address, and get_active_device
\* then replaced it with an address that is in self.devices
C19_Witness ==
    /\ valid
    /\ write.by = "main" /\ write.field = "active_device"
    /\ write.old # <<NoAddr>>
    /\ write.old[1] \notin Range(devices)
    /\ active_device \in Range(devices)

\* ---- C20 (checked under SpecRace)
\* C20: every assignment to self.devices, self.active_device and
\* self.last_scan_time is made by a thread that holds scan_lock, and no scan
\* replaces self.devices while the other thread is inside
\* get_active_device.
C20_WritesUnderLock ==
    /\ write.locked
    /\ ~write.overlap

\* ---- C21 (checked under Spec)
\* C21: when flush forwards a frame to the driver, setRgb receives the
\* frame's red, green and blue values unchanged and in that order.
C21_DriverGetsFrameAsGiven ==
    (last.op = "flush" /\ last.calls # <<>>) =>
        /\ last.calls[1].fn = "setRgb"
        /\ last.calls[1].args = <<last.rgb[1], last.rgb[2], last.rgb[3]>>

\* ---- C22 (checked under Spec)
\* the latest call on the device was a flush whose driver call raised
DriverFailed ==
    last.op = "flush" /\ last.calls # <<>> /\ ~last.calls[1].ok

\* the step is a flush of a frame of three components
FlushStep == last'.op = "flush" /\ Len(last'.rgb) = 3

\* C22 as claimed: a driver failure inside flush does not leave flush and the
\* controller stays active, and the next frame that arrives, whichever it
\* is, is sent to the driver.
C22_NextFrameIsSent ==
    [][/\ (last'.op = "flush" /\ last'.calls # <<>> /\ ~last'.calls[1].ok) =>
            (~last'.raised /\ is_active /\ is_active')
       /\ (DriverFailed /\ FlushStep) =>
            (last'.calls # <<>> /\ last'.calls[1].fn = "setRgb")]_vars

\* C22 as the code has it: the same, except that the next frame is not sent
\* when it equals last_rgb, the frame the driver last accepted (zengeeled.py;
\* openmagic.py keeps no last_rgb); a repeat of the frame that failed is
\* always sent.
C22_NextFrameIsSentUnlessShown ==
    [][/\ (last'.op = "flush" /\ last'.calls # <<>> /\ ~last'.calls[1].ok) =>
            (~last'.raised /\ is_active /\ is_active')
       /\ (DriverFailed /\ FlushStep) =>
            /\ (impl = "openmagic" \/ last'.rgb # last_rgb) =>
                  (last'.calls # <<>> /\ last'.calls[1].fn = "setRgb")
            /\ last'.rgb = last.rgb =>
                  (last'.calls # <<>> /\ last'.calls[1].fn = "setRgb")
            /\ (impl = "zengeeled" /\ last'.rgb = last_rgb) => last'.calls = <<>>]_vars

\* C22's case: zengeeled's flush of a frame failed at the driver, the same
\* frame arrived again, and this time the driver accepted it
C22_Witness ==
    /\ impl = "zengeeled"
    /\ pair.twice /\ pair.calls = 2
    /\ last.calls # <<>> /\ last.calls[1].ok
    /\ last_rgb = last.rgb

\* ---- C23 (checked under SpecMain)
\* C23: when the loop's re-evaluation gets no address from get_active_device
\* (self.devices is empty), and no interrupt arrives, main stays in the loop:
\* no exception leaves the swap block and the process does not end.
C23_NoDevicesIsHandled ==
    [][(ReevaluateStep /\ swap'.ret = NoAddr) =>
          /\ swap'.raised = "none"
          /\ pc' = "loop"
          /\ left' = NoExit]_vars

\* ---- C24 (checked under SpecLoop)
\* C24: when main waits for a datagram while the re-evaluation is due and
\* the bound address is no longer among self.devices, main leaves recvfrom
\* (and with it reaches the re-evaluation at the top of the loop) or ends,
\* whether or not a datagram ever arrives.
C24_LeavesRecvfromWhenDue ==
    (pc = "loop" /\ waiting /\ Due /\ devices # <<>>
        /\ active_device_ip \notin Range(devices))
      ~> (~waiting \/ pc = "exited")

\* ---- C25 (checked under SpecFlushRace)
\* C25: whenever no thread is inside flush, last_rgb is the colour the
\* driver accepted last (once it has accepted one).
C25_LastFrameIsShown ==
    ((\A t \in FlushThreads : fl_at[t] = "idle") /\ shown # NoColour) =>
        last_rgb = shown

\* ---- C26 (checked under SpecRace)
\* C26: whatever the background scan does meanwhile, no exception leaves
\* get_active_device, and the address it is about to return is one that
\* self.devices held when the call tested or assigned it (so it is in
\* self.devices still, unless a scan has replaced the list since).
C26_GetActiveNeverRaises ==
    /\ at["main"] # "raised"
    /\ at["main"] = "return" =>
          /\ active_device # NoAddr
          /\ valid => active_device \in Range(devices)

\* ---- C27 (checked under SpecScanner)
\* the step is a discover_devices call, made directly or from inside
\* get_active_device, whose network probe failed
ProbeFailedStep ==
    \/ scan_op' = "discover_devices" /\ disc'.probed = "fail"
    \/ scan_op' = "get_active_device" /\ got'.pre_devices = <<>>
          /\ disc'.probed = "fail"

\* C27: a scan whose probe fails leaves self.devices, self.active_device and
\* self.last_scan_time as they were, so that get_active_device returns after
\* it what it would have returned before it (and None when the failed scan
\* was its own).
C27_FailedProbeChangesNothing ==
    [][ProbeFailedStep =>
          /\ devices' = devices
          /\ last_scan_time' = last_scan_time
          /\ active_device' = active_device
          /\ \A probe \in Probes :
                get_active_device(devices', last_scan_time', active_device',
                                  now', probe).ret
                  = get_active_device(devices, last_scan_time, active_device,
                                      now', probe).ret
          /\ scan_op' = "get_active_device" => got'.ret = NoAddr]_vars

\* C27's case: the probe of a scan failed while the scanner knew devices and
\* had an active one, which it has kept
C27_Witness ==
    /\ impl = "openmagic"
    /\ scan_op = "discover_devices"
    /\ disc.probed = "fail"
    /\ devices # <<>>
    /\ active_device \in Range(devices)

====
